---------------------------- MODULE Spec2Model ----------------------------
(***************************************************************************)
(* Batch conversion pipeline of Photography-Optimizer.                     *)
(*                                                                         *)
(* BatchConverter.run (src/src/app/core/converter.py) is modelled as a     *)
(* sequential process whose position is pc; the output directory is the    *)
(* triple (dir_exists, files, manifest).  Text (file names, export names,  *)
(* entry contents) is a sequence of one-character strings, so that         *)
(* str.strip, Path.stem and the f-string formatting are computed, not      *)
(* assumed.  The GUI shell (src/src/app/ui/main_window.py) is modelled as  *)
(* far as it decides whether and with which options run is started.        *)
(*                                                                         *)
(* Spec is run over a list of files; GuiSpec is the window and            *)
(* GuiLiveSpec the window with its worker thread and its event loop        *)
(* scheduled; FileSpec is the try block of one file with the image, its    *)
(* metadata and its record; CallSpec is one call of _resize_if_enabled,    *)
(* build_api_url, detect_output_conflicts, extract_exif_data or the        *)
(* BatchResult properties on drawn arguments.                              *)
(***************************************************************************)
EXTENDS Integers, Sequences, FiniteSets, TLC

(***************************************************************************)
(* Bounds of the model.                                                    *)
(***************************************************************************)
MaxFiles == 2

(***************************************************************************)
(* Text helpers: Python's None, truthiness of an optional str, str.strip,  *)
(* str(int), pathlib's PurePath.stem.                                      *)
(***************************************************************************)
None == <<"<None>">>

Whitespace == {" ", "\t"}

Truthy(s) == s # None /\ s # <<>>

RECURSIVE lstrip(_)
lstrip(s) == IF s # <<>> /\ Head(s) \in Whitespace THEN lstrip(Tail(s)) ELSE s

RECURSIVE rstrip(_)
rstrip(s) ==
    IF s # <<>> /\ s[Len(s)] \in Whitespace
    THEN rstrip(SubSeq(s, 1, Len(s) - 1))
    ELSE s

strip(s) == rstrip(lstrip(s))

DigitChars == <<"0", "1", "2", "3", "4", "5", "6", "7", "8", "9">>

RECURSIVE str(_)
str(n) ==
    IF n < 10
    THEN <<DigitChars[n + 1]>>
    ELSE str(n \div 10) \o <<DigitChars[(n % 10) + 1]>>

\* str.rfind("."): 0-based index of the last dot, -1 when there is none.
rfind_dot(name) ==
    LET dots == {i \in 1..Len(name) : name[i] = "."}
    IN  IF dots = {} THEN -1
        ELSE (CHOOSE i \in dots : \A j \in dots : j <= i) - 1

\* PurePath.stem: the final component without its last suffix.
stem(name) ==
    LET i == rfind_dot(name)
    IN  IF 0 < i /\ i < Len(name) - 1 THEN SubSeq(name, 1, i) ELSE name

\* PurePath.suffix: the last dot of the final component and what follows.
suffix(name) ==
    LET i == rfind_dot(name)
    IN  IF 0 < i /\ i < Len(name) - 1
        THEN SubSeq(name, i + 1, Len(name))
        ELSE <<>>

\* str.lower on the characters the model uses.
lower_char(c) ==
    CASE c = "J" -> "j"
      [] c = "P" -> "p"
      [] c = "G" -> "g"
      [] OTHER -> c

lower(s) == [i \in 1..Len(s) |-> lower_char(s[i])]

\* int(text) for a text of decimal digits.
digit_value(c) == CHOOSE d \in 0..9 : DigitChars[d + 1] = c

RECURSIVE int(_)
int(text) ==
    IF Len(text) = 1
    THEN digit_value(text[1])
    ELSE 10 * int(SubSeq(text, 1, Len(text) - 1)) + digit_value(text[Len(text)])

(***************************************************************************)
(* The inputs the model draws from.                                        *)
(***************************************************************************)
a_jpg == <<"a", ".", "j", "p", "g">>
a_png == <<"a", ".", "p", "n", "g">>
b_JPG == <<"b", ".", "J", "P", "G">>

SourceNames == {a_jpg, a_png, b_JPG}

ExportNames == {None, <<>>, <<" ">>, <<" ", "p", " ">>}

InputLists == UNION {[1..n -> SourceNames] : n \in 0..MaxFiles}

\* Names in an output directory left by an earlier export.
a_webp == <<"a", ".", "w", "e", "b", "p">>
p_1_webp == <<"p", "-", "1", ".", "w", "e", "b", "p">>

(***************************************************************************)
(* State.                                                                  *)
(***************************************************************************)
VARIABLES
    \* -- the caller's arguments of BatchConverter.run
    options,        \* ConversionOptions of the run
    on_log,         \* TRUE when the caller passed an on_log callback
    on_progress,    \* TRUE when the caller passed an on_progress callback
    \* -- BatchConverter.run
    pc,             \* position of run
    index,          \* enumerate(..., start=1) counter of the loop
    total,
    succeeded,
    failed,
    records,        \* list[ConvertedImageRecord]
    output_name,    \* local of the current iteration
    in_flight,      \* TRUE while an exception raised in the except block unwinds
    input_total_bytes,
    output_total_bytes,
    result,         \* the BatchResult returned, NoResult before
    raised_by,      \* what raised the exception that left run, "none" before
    expected,       \* list returned by get_expected_output_names, None before
    \* -- the output directory
    dir_exists,     \* options.output_dir exists
    files,          \* names of the image files in it
    manifest,       \* content of gallery-data.json
    \* -- what the callbacks were given
    logs,           \* messages passed to on_log, in call order
    progress,       \* (current, total) pairs passed to on_progress, in order
    \* -- history of the run
    attempted,      \* indices whose try block was entered
    counted_ok,     \* indices for which succeeded was incremented
    counted_bad,    \* indices for which failed was incremented
    names,          \* index -> output name computed for it in this run
    gallery_calls,  \* calls of write_gallery_data in this run
    files_at_call,  \* files present when run was called
    manifest_at_call,   \* manifest when run was called
    step_raised,    \* indices for which a statement of lines 39-62 raised
    recorded,       \* indices of the files the records were appended for
    saved,          \* indices whose output image save() put in the directory
    \* -- MainWindow
    selected_files,
    output_dir,             \* None or the folder picked
    export_name_entry,
    resize_enabled_var,
    preserve_aspect_var,
    resize_width_entry,
    resize_height_entry,
    start_button,           \* "normal" or "disabled"
    dialog,                 \* message box shown by the last handler
    threads,                \* options of the worker threads inside converter.run
    ui_queue,               \* callbacks scheduled with after(0, ...)
    starts,                 \* worker threads started so far
    \* -- one file's way through converter.py:39-62, with its data
    block,          \* position inside the try block
    image,          \* the object Image.open returned
    metadata,       \* what extract_exif_data returned
    image_to_save,  \* what _resize_if_enabled returned
    decoded,        \* the image as Image.open decoded it
    \* -- one call of a function of the core
    call            \* the function, its arguments and what it returned

inputs == <<options, on_log, on_progress>>

run_locals == <<index, total, succeeded, failed, records, output_name,
                in_flight>>

byte_totals == <<input_total_bytes, output_total_bytes>>

run_exit == <<result, raised_by>>

fsys == <<dir_exists, files, manifest>>

callbacks == <<logs, progress>>

counts == <<attempted, counted_ok, counted_bad, gallery_calls,
            files_at_call, manifest_at_call>>

history == <<counts, names, step_raised, recorded, saved>>

widgets == <<selected_files, output_dir, export_name_entry,
             resize_enabled_var, preserve_aspect_var, resize_width_entry,
             resize_height_entry>>

gui == <<widgets, start_button, dialog, threads, ui_queue, starts>>

core == <<inputs, pc, run_locals, byte_totals, run_exit, expected, callbacks,
          history>>

with_block_data == <<image, metadata, image_to_save, decoded>>

with_block == <<block, with_block_data>>

detail == <<with_block, call>>

vars == <<core, fsys, gui, detail>>

NoResult == [total |-> -1, succeeded |-> -1, failed |-> -1,
             input_total_bytes |-> -1, output_total_bytes |-> -1]

source_name(i) == options.input_files[i]

(***************************************************************************)
(* BatchConverter._build_output_name and get_expected_output_names.        *)
(***************************************************************************)
webp == <<".", "w", "e", "b", "p">>

\* Variant: the export name is used as typed, not stripped.
_build_output_name_unstripped(source_path, opts, idx) ==
    IF Truthy(opts.export_name) /\ Truthy(strip(opts.export_name))
    THEN opts.export_name \o <<"-">> \o str(idx) \o webp
    ELSE stem(source_path) \o webp

_build_output_name(source_path, opts, idx) ==
    IF Truthy(opts.export_name) /\ Truthy(strip(opts.export_name))
    THEN strip(opts.export_name) \o <<"-">> \o str(idx) \o webp
    ELSE stem(source_path) \o webp

RECURSIVE expected_names_upto(_, _)
expected_names_upto(opts, n) ==
    IF n = 0
    THEN <<>>
    ELSE Append(expected_names_upto(opts, n - 1),
                _build_output_name(opts.input_files[n], opts, n))

\* Variant: enumerate without start=1.
RECURSIVE expected_names_from_zero(_, _)
expected_names_from_zero(opts, n) ==
    IF n = 0
    THEN <<>>
    ELSE Append(expected_names_from_zero(opts, n - 1),
                _build_output_name(opts.input_files[n], opts, n - 1))

get_expected_output_names_from_zero(opts) ==
    expected_names_from_zero(opts, Len(opts.input_files))

get_expected_output_names(opts) ==
    expected_names_upto(opts, Len(opts.input_files))

(***************************************************************************)
(* gallery_data.write_gallery_data: the payload is one object per record,  *)
(* in the order of the records.                                            *)
(***************************************************************************)
Absent == [state |-> "absent", entries |-> <<>>]

\* Variant: the payload lists the records last first.
payload_reversed(items) ==
    [i \in 1..Len(items) |->
        [source_file |-> items[Len(items) + 1 - i].source_file,
         output_file |-> items[Len(items) + 1 - i].output_file]]

payload(items) ==
    [i \in 1..Len(items) |->
        [source_file |-> items[i].source_file,
         output_file |-> items[i].output_file]]

write_gallery_data(items) == [state |-> "complete", entries |-> payload(items)]

\* What open(..., "w") leaves behind when json.dump raises before the end.
Truncated == [state |-> "partial", entries |-> <<>>]

\* The manifest of an earlier export found in a directory that is not fresh.
OldManifest ==
    [state |-> "complete",
     entries |-> <<[source_file |-> a_jpg, output_file |-> a_webp]>>]

OldFiles == {a_webp, p_1_webp}

(***************************************************************************)
(* Calling a callback: the message is handed over, and the callback either *)
(* returns or raises.                                                      *)
(***************************************************************************)
Message(kind, name) == [kind |-> kind, name |-> name]

Outcomes == {"returns", "raises"}

(***************************************************************************)
(* Initial states.                                                         *)
(***************************************************************************)
\* run has not been called.
RunIdle ==
    /\ pc = "idle"
    /\ index = 0
    /\ total = 0
    /\ succeeded = 0
    /\ failed = 0
    /\ records = <<>>
    /\ output_name = None
    /\ in_flight = FALSE
    /\ input_total_bytes = 0
    /\ output_total_bytes = 0
    /\ result = NoResult
    /\ raised_by = "none"
    /\ expected = None
    /\ logs = <<>>
    /\ progress = <<>>
    /\ attempted = {}
    /\ counted_ok = {}
    /\ counted_bad = {}
    /\ names = <<>>
    /\ gallery_calls = 0
    /\ files_at_call = {}
    /\ saved = {}
    /\ manifest_at_call = Absent
    /\ step_raised = {}
    /\ recorded = <<>>

\* The output directory is missing, or was left by an earlier export.
DirInit ==
    \E old \in BOOLEAN :
        /\ dir_exists = old
        /\ files = IF old THEN OldFiles ELSE {}
        /\ manifest = IF old THEN OldManifest ELSE Absent

\* main_window.py:21-51: the window as constructed.
WindowInit ==
    /\ selected_files = <<>>
    /\ output_dir = None
    /\ export_name_entry = <<>>
    /\ resize_enabled_var = FALSE
    /\ preserve_aspect_var = TRUE
    /\ resize_width_entry = <<>>
    /\ resize_height_entry = <<>>
    /\ start_button = "disabled"
    /\ dialog = "none"
    /\ threads = <<>>
    /\ ui_queue = <<>>
    /\ starts = 0

\* No file is open and no function of the core has been called on its own.
NoImage == [width |-> 0, height |-> 0]

NoCall == [fn |-> "none"]

DetailIdle ==
    /\ block = "closed"
    /\ image = NoImage
    /\ metadata = <<>>
    /\ image_to_save = NoImage
    /\ decoded = NoImage
    /\ call = NoCall

\* A caller of the core has built the options and chosen the callbacks.
Init ==
    /\ \E fl \in InputLists, en \in ExportNames :
          options = [input_files |-> fl, export_name |-> en]
    /\ on_log \in BOOLEAN
    /\ on_progress \in BOOLEAN
    /\ RunIdle
    /\ DirInit
    /\ WindowInit
    /\ DetailIdle

(***************************************************************************)
(* BatchConverter.run, statement by statement.                             *)
(***************************************************************************)
\* converter.py:94-98.  The caller asks for the names before the run; the
\* call reads options and nothing else.
GetExpectedOutputNames ==
    /\ pc = "idle"
    /\ expected = None
    /\ expected' = get_expected_output_names(options)
    /\ UNCHANGED <<inputs, pc, run_locals, run_exit, callbacks, history,
                   byte_totals, fsys, gui, detail>>

\* The caller invokes run(options, on_progress, on_log).
Call ==
    /\ pc = "idle"
    /\ pc' = "mkdir"
    /\ files_at_call' = files
    /\ manifest_at_call' = manifest
    /\ UNCHANGED <<inputs, run_locals, run_exit, expected, callbacks,
                   attempted, counted_ok, counted_bad, names, gallery_calls,
                   step_raised, recorded, byte_totals, saved, fsys, gui,
                   detail>>

\* Variant: a failure of mkdir is swallowed and the loop is entered.
Mkdir_failure_swallowed ==
    /\ pc = "mkdir"
    /\ \E created \in BOOLEAN :
          dir_exists' = (dir_exists \/ created)
    /\ total' = Len(options.input_files)
    /\ succeeded' = 0
    /\ failed' = 0
    /\ records' = <<>>
    /\ input_total_bytes' = 0
    /\ output_total_bytes' = 0
    /\ pc' = "for"
    /\ UNCHANGED <<inputs, index, output_name, in_flight, run_exit, expected,
                   callbacks, history, files, manifest, gui, detail>>

\* converter.py:25-32.  mkdir(parents=True, exist_ok=True) returns on an
\* existing directory; on a missing one it creates it or raises.
Mkdir ==
    /\ pc = "mkdir"
    /\ \E created \in BOOLEAN :
          IF dir_exists \/ created
          THEN /\ dir_exists' = TRUE
               /\ total' = Len(options.input_files)
               /\ succeeded' = 0
               /\ failed' = 0
               /\ records' = <<>>
               /\ input_total_bytes' = 0
               /\ output_total_bytes' = 0
               /\ pc' = "for"
               /\ UNCHANGED raised_by
          ELSE /\ pc' = "raised"
               /\ raised_by' = "mkdir"
               /\ UNCHANGED <<dir_exists, total, succeeded, failed, records,
                              byte_totals>>
    /\ UNCHANGED <<inputs, index, output_name, in_flight, result, expected,
                   callbacks, history, files, manifest, gui, detail>>

\* converter.py:34-36.  The next element of enumerate, then the
\* "Processing" line, which is logged before the try block is entered.
ForNext ==
    /\ pc = "for"
    /\ IF index < total
       THEN /\ index' = index + 1
            /\ IF on_log
               THEN /\ logs' = Append(logs, Message("Processing",
                                                    source_name(index + 1)))
                    /\ \E o \in Outcomes :
                          IF o = "returns"
                          THEN pc' = "name" /\ UNCHANGED raised_by
                          ELSE pc' = "raised" /\ raised_by' = "on_log"
               ELSE /\ pc' = "name"
                    /\ UNCHANGED <<logs, raised_by>>
       ELSE /\ pc' = "write"
            /\ UNCHANGED <<index, logs, raised_by>>
    /\ UNCHANGED <<inputs, total, succeeded, failed, records, output_name,
                   in_flight, result, expected, progress, history, byte_totals,
                   fsys, gui, detail>>

\* converter.py:38-40.  The try block is entered and the name is computed.
BuildName ==
    /\ pc = "name"
    /\ attempted' = attempted \cup {index}
    /\ \E ok \in BOOLEAN :
          IF ok
          THEN /\ output_name' =
                     _build_output_name(source_name(index), options, index)
               /\ names' = (index :> output_name') @@ names
               /\ pc' = "decode"
               /\ UNCHANGED step_raised
          ELSE /\ pc' = "except"
               /\ step_raised' = step_raised \cup {index}
               /\ UNCHANGED <<output_name, names>>
    /\ UNCHANGED <<inputs, index, total, succeeded, failed, records, in_flight,
                   run_exit, expected, callbacks, counted_ok, counted_bad,
                   gallery_calls, files_at_call, manifest_at_call, recorded,
                   byte_totals, saved, fsys, gui, detail>>

\* converter.py:42-44.  Image.open, extract_exif_data, _resize_if_enabled:
\* none of them writes anything; each may raise.
Decode ==
    /\ pc = "decode"
    /\ \E ok \in BOOLEAN :
          /\ pc' = IF ok THEN "save" ELSE "except"
          /\ step_raised' = IF ok THEN step_raised ELSE step_raised \cup {index}
    /\ UNCHANGED <<inputs, run_locals, run_exit, expected, callbacks, counts,
                   names, recorded, byte_totals, saved, fsys, gui, detail>>

\* converter.py:45-50.  image_to_save.save(output_path, ...): on success the
\* file is there; when save raises, the file it opened may or may not have
\* been left in the directory.
Save ==
    /\ pc = "save"
    /\ \E ok \in BOOLEAN, left \in BOOLEAN :
          /\ files' = IF ok \/ left THEN files \cup {output_name} ELSE files
          /\ saved' = IF ok \/ left THEN saved \cup {index} ELSE saved
          /\ pc' = IF ok THEN "stat" ELSE "except"
          /\ step_raised' = IF ok THEN step_raised ELSE step_raised \cup {index}
    /\ UNCHANGED <<inputs, run_locals, run_exit, expected, callbacks, counts,
                   names, recorded, byte_totals, dir_exists, manifest, gui,
                   detail>>

\* Sizes in bytes of the source files on disk, and of the WebP file that
\* save() writes for each of them (converter.py:52 and 53 read them).
source_st_size(name) ==
    IF name = a_jpg THEN 3 ELSE IF name = a_png THEN 4 ELSE 2

output_st_size(name) ==
    IF name = a_jpg THEN 1 ELSE IF name = a_png THEN 2 ELSE 1

\* converter.py:52-53.  The two stat() calls, each of which may raise; the
\* second is reached once input_total_bytes has been increased.
Stat ==
    /\ pc = "stat"
    /\ \E reached \in {"source", "output", "end"} :
          /\ input_total_bytes' =
                IF reached = "source"
                THEN input_total_bytes
                ELSE input_total_bytes + source_st_size(source_name(index))
          /\ output_total_bytes' =
                IF reached = "end"
                THEN output_total_bytes + output_st_size(source_name(index))
                ELSE output_total_bytes
          /\ pc' = IF reached = "end" THEN "record" ELSE "except"
          /\ step_raised' = IF reached = "end"
                            THEN step_raised
                            ELSE step_raised \cup {index}
    /\ UNCHANGED <<inputs, run_locals, run_exit, expected, callbacks, counts,
                   names, recorded, saved, fsys, gui, detail>>

\* converter.py:55-62.  The record is built and appended.
AppendRecord ==
    /\ pc = "record"
    /\ \E ok \in BOOLEAN :
          IF ok
          THEN /\ records' = Append(records,
                                [source_file |-> source_name(index),
                                 output_file |-> output_name])
               /\ recorded' = Append(recorded, index)
               /\ pc' = "count"
               /\ UNCHANGED step_raised
          ELSE /\ pc' = "except"
               /\ step_raised' = step_raised \cup {index}
               /\ UNCHANGED <<records, recorded>>
    /\ UNCHANGED <<inputs, index, total, succeeded, failed, output_name,
                   in_flight, run_exit, expected, callbacks, counts, names,
                   byte_totals, saved, fsys, gui, detail>>

\* converter.py:64-66.  succeeded += 1, then the "Saved" line, still inside
\* the try block: a raising on_log is caught by the except clause below.
CountSucceeded ==
    /\ pc = "count"
    /\ succeeded' = succeeded + 1
    /\ counted_ok' = counted_ok \cup {index}
    /\ IF on_log
       THEN /\ logs' = Append(logs, Message("Saved", output_name))
            /\ \E o \in Outcomes :
                  pc' = IF o = "returns" THEN "finally" ELSE "except"
       ELSE /\ pc' = "finally"
            /\ UNCHANGED logs
    /\ UNCHANGED <<inputs, index, total, failed, records, output_name,
                   in_flight, run_exit, expected, progress, attempted,
                   counted_bad, names, gallery_calls, files_at_call,
                   manifest_at_call, step_raised, recorded, byte_totals,
                   saved, fsys, gui, detail>>

\* converter.py:67-70.  except Exception: failed += 1, then the "Failed"
\* line; an exception raised here leaves the loop once finally has run.
Except ==
    /\ pc = "except"
    /\ failed' = failed + 1
    /\ counted_bad' = counted_bad \cup {index}
    /\ IF on_log
       THEN /\ logs' = Append(logs, Message("Failed", source_name(index)))
            /\ \E o \in Outcomes : in_flight' = (o = "raises")
       ELSE UNCHANGED <<logs, in_flight>>
    /\ pc' = "finally"
    /\ UNCHANGED <<inputs, index, total, succeeded, records, output_name,
                   run_exit, expected, progress, attempted, counted_ok, names,
                   gallery_calls, files_at_call, manifest_at_call, step_raised,
                   recorded, byte_totals, saved, fsys, gui, detail>>

\* Variant: on_progress is called at the end of the try block, not in a
\* finally clause, so a failed file gives no call.
Finally_only_on_success ==
    /\ pc = "finally"
    /\ \E o \in (IF on_progress /\ index \notin counted_bad
                 THEN Outcomes ELSE {"returns"}) :
          /\ progress' = IF on_progress /\ index \notin counted_bad
                         THEN Append(progress, <<index, total>>)
                         ELSE progress
          /\ IF o = "raises"
             THEN pc' = "raised" /\ raised_by' = "on_progress"
             ELSE IF in_flight
                  THEN pc' = "raised" /\ raised_by' = "on_log"
                  ELSE pc' = "for" /\ UNCHANGED raised_by
    /\ in_flight' = FALSE
    /\ UNCHANGED <<inputs, index, total, succeeded, failed, records,
                   output_name, result, expected, logs, history, byte_totals,
                   fsys, gui, detail>>

\* converter.py:71-73.  finally: on_progress(index, total); then the loop
\* goes on, unless an exception is unwinding or on_progress raises one.
Finally ==
    /\ pc = "finally"
    /\ \E o \in (IF on_progress THEN Outcomes ELSE {"returns"}) :
          /\ progress' = IF on_progress
                         THEN Append(progress, <<index, total>>)
                         ELSE progress
          /\ IF o = "raises"
             THEN pc' = "raised" /\ raised_by' = "on_progress"
             ELSE IF in_flight
                  THEN pc' = "raised" /\ raised_by' = "on_log"
                  ELSE pc' = "for" /\ UNCHANGED raised_by
    /\ in_flight' = FALSE
    /\ UNCHANGED <<inputs, index, total, succeeded, failed, records,
                   output_name, result, expected, logs, history, byte_totals,
                   fsys, gui, detail>>

\* converter.py:75 with gallery_data.py:20-35.  The file is opened for
\* writing and the payload dumped; when that raises, the file is untouched
\* (open failed) or truncated (dump failed).
WriteGallery ==
    /\ pc = "write"
    /\ gallery_calls' = gallery_calls + 1
    /\ \/ /\ manifest' = write_gallery_data(records)
          /\ pc' = "created"
          /\ UNCHANGED raised_by
       \/ /\ manifest' \in {manifest, Truncated}
          /\ pc' = "raised"
          /\ raised_by' = "write_gallery_data"
    /\ UNCHANGED <<inputs, run_locals, result, expected, callbacks, attempted,
                   counted_ok, counted_bad, names, files_at_call,
                   manifest_at_call, step_raised, recorded, byte_totals,
                   saved, dir_exists, files, gui, detail>>

\* converter.py:76-86.  The "Metadata file created" line and the return.
Return ==
    /\ pc = "created"
    /\ \E o \in (IF on_log THEN Outcomes ELSE {"returns"}) :
          /\ logs' = IF on_log
                     THEN Append(logs, Message("Created", <<>>))
                     ELSE logs
          /\ IF o = "returns"
             THEN /\ pc' = "returned"
                  /\ result' = [total |-> total, succeeded |-> succeeded,
                                failed |-> failed,
                                input_total_bytes |-> input_total_bytes,
                                output_total_bytes |-> output_total_bytes]
                  /\ UNCHANGED raised_by
             ELSE /\ pc' = "raised"
                  /\ raised_by' = "on_log"
                  /\ UNCHANGED result
    /\ UNCHANGED <<inputs, run_locals, expected, progress, history,
                   byte_totals, fsys, gui, detail>>

Next ==
    \/ GetExpectedOutputNames
    \/ Call
    \/ Mkdir
    \/ ForNext
    \/ BuildName
    \/ Decode
    \/ Save
    \/ Stat
    \/ AppendRecord
    \/ CountSucceeded
    \/ Except
    \/ Finally
    \/ WriteGallery
    \/ Return

Spec == Init /\ [][Next]_vars

(***************************************************************************)
(* The GUI shell, main_window.py.  The state kept is what decides whether  *)
(* and with which options a worker thread is started; widgets that only    *)
(* display (log box, progress bar, labels, thumbnails, export list) are    *)
(* not part of it.  A worker thread's call of converter.run is one step    *)
(* here: RunResults gives every state of the output directory in which     *)
(* run can leave it, and whether run returned.                             *)
(***************************************************************************)
MaxStarts == 1

n_txt == <<"n", ".", "t", "x", "t">>

\* What the file dialog may return: nothing, unsupported files, images.
PickLists == {<<>>, <<n_txt>>, <<a_jpg, n_txt>>}

\* What can be typed into a resize entry (validated to digits) and into the
\* export name entry.
EntryTexts == {<<>>, <<"0">>, <<"7">>}

ExportEntryTexts == {<<>>, <<" ", "p", " ">>}

PickedDir == <<"out">>

\* Optional[int]: <<>> is None, <<n>> is the integer n.
NoInt == <<>>

SUPPORTED_EXTENSIONS ==
    { <<".", "j", "p", "g">>, <<".", "j", "p", "e", "g">>,
      <<".", "p", "n", "g">>, <<".", "t", "i", "f">>,
      <<".", "t", "i", "f", "f">>, <<".", "b", "m", "p">>,
      <<".", "w", "e", "b", "p">> }

IsSupported(path) == lower(suffix(path)) \in SUPPORTED_EXTENSIONS

filter_supported_images(paths) == SelectSeq(paths, IsSupported)

resolve_effective_output_dir(base_output_dir) ==
    base_output_dir \o <<"exported">>

\* Variant: names are reported once, whatever their number in the list.
detect_output_conflicts_first_only(expected_output_names) ==
    LET exists(name) == name \in files
        first(i) == \A j \in 1..(i - 1) :
                       expected_output_names[j] # expected_output_names[i]
        kept == {i \in DOMAIN expected_output_names :
                    exists(expected_output_names[i]) /\ first(i)}
    IN  [gallery_json_exists |-> manifest.state # "absent",
         duplicate_files |->
             IF kept = {} THEN <<>>
             ELSE <<expected_output_names[CHOOSE i \in kept : TRUE]>>]

\* validation.py:23-31, on the directory the model keeps.
detect_output_conflicts(expected_output_names) ==
    LET exists(name) == name \in files
    IN  [gallery_json_exists |-> manifest.state # "absent",
         duplicate_files |-> SelectSeq(expected_output_names, exists)]

has_conflicts(conflicts) ==
    conflicts.gallery_json_exists \/ conflicts.duplicate_files # <<>>

\* Variant: the checks of width <= 0 and height <= 0 are missing.
_parse_resize_values_any_sign(enabled, preserve, width_entry, height_entry) ==
    IF ~enabled
    THEN [ok |-> TRUE, width |-> NoInt, height |-> NoInt]
    ELSE
      LET width_text == strip(width_entry)
          height_text == strip(height_entry)
          width == IF width_text # <<>> THEN <<int(width_text)>> ELSE NoInt
          height == IF height_text # <<>> THEN <<int(height_text)>> ELSE NoInt
          error == [ok |-> FALSE, width |-> NoInt, height |-> NoInt]
      IN  IF width_text = <<>> /\ height_text = <<>> THEN error
          ELSE IF preserve /\ width # NoInt /\ height # NoInt THEN error
          ELSE [ok |-> TRUE, width |-> width, height |-> height]

\* main_window.py:488-509.  ok is FALSE when ValueError is raised.
_parse_resize_values(enabled, preserve, width_entry, height_entry) ==
    IF ~enabled
    THEN [ok |-> TRUE, width |-> NoInt, height |-> NoInt]
    ELSE
      LET width_text == strip(width_entry)
          height_text == strip(height_entry)
          width == IF width_text # <<>> THEN <<int(width_text)>> ELSE NoInt
          height == IF height_text # <<>> THEN <<int(height_text)>> ELSE NoInt
          error == [ok |-> FALSE, width |-> NoInt, height |-> NoInt]
      IN  IF width_text = <<>> /\ height_text = <<>> THEN error
          ELSE IF width # NoInt /\ width[1] <= 0 THEN error
          ELSE IF height # NoInt /\ height[1] <= 0 THEN error
          ELSE IF preserve /\ width # NoInt /\ height # NoInt THEN error
          ELSE [ok |-> TRUE, width |-> width, height |-> height]

\* main_window.py:526-557.  The state _update_resize_field_state gives the
\* two entries and the aspect checkbox; it runs after every change of what
\* it reads.
preserve_checkbox_state == IF resize_enabled_var THEN "normal" ELSE "disabled"

width_entry_state ==
    IF ~resize_enabled_var THEN "disabled"
    ELSE IF ~preserve_aspect_var THEN "normal"
    ELSE IF strip(resize_height_entry) # <<>> /\ strip(resize_width_entry) = <<>>
         THEN "disabled"
         ELSE "normal"

height_entry_state ==
    IF ~resize_enabled_var THEN "disabled"
    ELSE IF ~preserve_aspect_var THEN "normal"
    ELSE IF strip(resize_width_entry) # <<>> /\ strip(resize_height_entry) = <<>>
         THEN "disabled"
         ELSE "normal"

\* main_window.py:740-742.
_update_action_states(selected, out_dir) ==
    IF selected # <<>> /\ out_dir # None THEN "normal" ELSE "disabled"

\* converter.run as one step (converter.py:19-86): from a directory state
\* (d, f, m), the states in which a run with both callbacks passed can leave
\* the directory.  Of the first a files attempted, those in W had their
\* output written and those in R also their record appended.
RECURSIVE entries_for(_, _, _)
entries_for(opts, R, n) ==
    IF n = 0
    THEN <<>>
    ELSE entries_for(opts, R, n - 1) \o
         (IF n \in R
          THEN <<[source_file |-> opts.input_files[n],
                  output_file |-> get_expected_output_names(opts)[n]]>>
          ELSE <<>>)

RunResults(opts, d, f, m) ==
    LET n == Len(opts.input_files)
        name_of == get_expected_output_names(opts)
        written(W) == f \cup {name_of[i] : i \in W}
        left(df, mf, r) ==
            [dir_exists |-> TRUE, files |-> df, manifest |-> mf,
             returned |-> r]
    IN  \* mkdir raised
        (IF d THEN {}
         ELSE {[dir_exists |-> FALSE, files |-> f, manifest |-> m,
                returned |-> FALSE]})
        \cup
        \* a callback raised inside the loop
        {left(written(W), m, FALSE) :
            W \in UNION {SUBSET (1..a) : a \in (IF n = 0 THEN {} ELSE 0..n)}}
        \cup
        \* the loop ended and write_gallery_data raised
        UNION {{left(written(W), m, FALSE), left(written(W), Truncated, FALSE)} :
                 W \in SUBSET (1..n)}
        \cup
        \* the manifest was written; the last on_log returned or raised
        UNION {UNION {{left(written(W),
                            write_gallery_data(entries_for(opts, R, n)), r) :
                          r \in BOOLEAN} :
                        R \in SUBSET W} :
                 W \in SUBSET (1..n)}

(***************************************************************************)
(* The handlers of MainWindow.                                             *)
(***************************************************************************)
\* main_window.py:314-338.
_pick_files ==
    /\ \E selected \in PickLists :
          LET filtered == filter_supported_images(selected)
          IN  IF selected = <<>>
              THEN /\ dialog' = "none"
                   /\ UNCHANGED <<selected_files, start_button>>
              ELSE IF filtered = <<>>
              THEN /\ dialog' = "No supported images"
                   /\ UNCHANGED <<selected_files, start_button>>
              ELSE /\ selected_files' = filtered
                   /\ start_button' =
                         _update_action_states(filtered, output_dir)
                   /\ dialog' = "none"
    /\ UNCHANGED <<core, detail, fsys, output_dir, export_name_entry,
                   resize_enabled_var, preserve_aspect_var,
                   resize_width_entry, resize_height_entry, threads,
                   ui_queue, starts>>

\* main_window.py:339-348.
_pick_output_dir ==
    /\ \E selected \in {<<>>, PickedDir} :
          IF selected = <<>>
          THEN UNCHANGED <<output_dir, start_button>>
          ELSE /\ output_dir' = selected
               /\ start_button' = _update_action_states(selected_files, selected)
    /\ dialog' = "none"
    /\ UNCHANGED <<core, detail, fsys, selected_files, export_name_entry,
                   resize_enabled_var, preserve_aspect_var,
                   resize_width_entry, resize_height_entry, threads,
                   ui_queue, starts>>

\* The user edits the options: the two checkboxes of main_window.py:158-174
\* and the entries of main_window.py:138-139 and 177-194, each only while
\* its widget is enabled.
EditOptions ==
    /\ \/ /\ resize_enabled_var' = ~resize_enabled_var
          /\ UNCHANGED <<preserve_aspect_var, resize_width_entry,
                         resize_height_entry, export_name_entry>>
       \/ /\ preserve_checkbox_state = "normal"
          /\ preserve_aspect_var' = ~preserve_aspect_var
          /\ UNCHANGED <<resize_enabled_var, resize_width_entry,
                         resize_height_entry, export_name_entry>>
       \/ /\ width_entry_state = "normal"
          /\ \E text \in EntryTexts : resize_width_entry' = text
          /\ UNCHANGED <<resize_enabled_var, preserve_aspect_var,
                         resize_height_entry, export_name_entry>>
       \/ /\ height_entry_state = "normal"
          /\ \E text \in EntryTexts : resize_height_entry' = text
          /\ UNCHANGED <<resize_enabled_var, preserve_aspect_var,
                         resize_width_entry, export_name_entry>>
       \/ /\ \E text \in ExportEntryTexts : export_name_entry' = text
          /\ UNCHANGED <<resize_enabled_var, preserve_aspect_var,
                         resize_width_entry, resize_height_entry>>
    /\ dialog' = "none"
    /\ UNCHANGED <<core, detail, fsys, selected_files, output_dir,
                   start_button, threads, ui_queue, starts>>

\* main_window.py:372-384: the options _start_conversion builds.
gui_options(parsed) ==
    [input_files |-> selected_files,
     output_dir |-> resolve_effective_output_dir(output_dir),
     export_name |-> IF Truthy(strip(export_name_entry))
                     THEN strip(export_name_entry) ELSE None,
     resize_enabled |-> resize_enabled_var,
     resize_width |-> parsed.width,
     resize_height |-> parsed.height,
     preserve_aspect_ratio |-> preserve_aspect_var]

\* main_window.py:353-411, a click on the enabled start button.
_start_conversion ==
    /\ start_button = "normal"
    /\ starts < MaxStarts
    /\ LET parsed == _parse_resize_values(resize_enabled_var,
                         preserve_aspect_var, resize_width_entry,
                         resize_height_entry)
           opts == gui_options(parsed)
           conflicts ==
               detect_output_conflicts(get_expected_output_names(opts))
           refused(title) ==
               /\ dialog' = title
               /\ UNCHANGED <<start_button, threads, starts>>
           started(title) ==
               /\ dialog' = title
               /\ start_button' = "disabled"
               /\ threads' = Append(threads, opts)
               /\ starts' = starts + 1
       IN  IF selected_files = <<>> THEN refused("Missing images")
           ELSE IF output_dir = None THEN refused("Missing output folder")
           ELSE IF ~parsed.ok THEN refused("Invalid resize values")
           ELSE IF has_conflicts(conflicts)
                THEN \E proceed \in BOOLEAN :
                        IF proceed
                        THEN started("Output conflicts detected")
                        ELSE refused("Output conflicts detected")
                ELSE started("none")
    /\ UNCHANGED <<core, detail, fsys, widgets, ui_queue>>

\* main_window.py:413-434, on a worker thread: converter.run, then finish is
\* scheduled; when run raises, the thread ends there.
_run_conversion ==
    /\ \E k \in 1..Len(threads) :
          \E out \in RunResults(threads[k], dir_exists, files, manifest) :
              /\ dir_exists' = out.dir_exists
              /\ files' = out.files
              /\ manifest' = out.manifest
              /\ threads' = SubSeq(threads, 1, k - 1) \o
                            SubSeq(threads, k + 1, Len(threads))
              /\ ui_queue' = IF out.returned
                             THEN Append(ui_queue, "finish")
                             ELSE ui_queue
    /\ UNCHANGED <<core, detail, widgets, start_button, dialog, starts>>

\* main_window.py:420-432, finish() run by the Tk event loop.
finish ==
    /\ ui_queue # <<>>
    /\ Head(ui_queue) = "finish"
    /\ ui_queue' = Tail(ui_queue)
    /\ start_button' = _update_action_states(selected_files, output_dir)
    /\ dialog' = "Batch finished"
    /\ UNCHANGED <<core, detail, fsys, widgets, threads, starts>>

GuiInit ==
    /\ options = [input_files |-> <<>>, export_name |-> None]
    /\ on_log = TRUE
    /\ on_progress = TRUE
    /\ RunIdle
    /\ DirInit
    /\ WindowInit
    /\ DetailIdle

GuiNext ==
    \/ _pick_files
    \/ _pick_output_dir
    \/ EditOptions
    \/ _start_conversion
    \/ _run_conversion
    \/ finish

GuiSpec == GuiInit /\ [][GuiNext]_vars

\* The window with its scheduling: a started worker thread is run by the
\* interpreter until converter.run returns or raises (main_window.py:410-418),
\* and the Tk event loop runs every callback queued with after(0, ...)
\* (main_window.py:434).  Nothing obliges the user to do anything.
GuiLiveSpec ==
    /\ GuiInit
    /\ [][GuiNext]_vars
    /\ WF_vars(_run_conversion)
    /\ WF_vars(finish)

(***************************************************************************)
(* Images and the resize step, converter.py:100-119.  An image is its      *)
(* pixel size; Image.copy and Image.resize give a new object,              *)
(* Image.thumbnail changes the object it is called on.                     *)
(***************************************************************************)
MaxDim == 4

Images == [width : 1..MaxDim, height : 1..MaxDim]

\* resize_width / resize_height: None, or an integer of either sign.
Requested == {NoInt} \cup {<<n>> : n \in (-1)..(MaxDim + 1)}

ResizeOptions ==
    [resize_enabled : BOOLEAN, resize_width : Requested,
     resize_height : Requested, preserve_aspect_ratio : BOOLEAN]

max(a, b) == IF a >= b THEN a ELSE b

abs(n) == IF n >= 0 THEN n ELSE -n

\* math.floor and math.ceil of the quotient p / q, q > 0.
floor(p, q) == p \div q

ceil(p, q) == IF p % q = 0 THEN p \div q ELSE (p \div q) + 1

copy(im) == im

\* Image.resize(size): a new image of exactly that size.
resize(im, size) == [im EXCEPT !.width = size[1], !.height = size[2]]

\* Variant: thumbnail stretches the image to the requested size.
thumbnail_stretching(im, size) == {resize(im, size)}

\* Image.thumbnail(size), as called at converter.py:114: nothing when the
\* image already fits; otherwise the side that the box does not bind is the
\* floor or the ceiling of its proportional length, whichever keeps the
\* aspect ratio better, and at least 1.  round_aspect compares float
\* quotients: when the two candidates are equally good as exact fractions,
\* rounding decides, so both are kept.
thumbnail(im, size) ==
    LET w == im.width
        h == im.height
        x == size[1]
        y == size[2]
        lo_x == floor(y * w, h)
        hi_x == ceil(y * w, h)
        key_x(n) == abs(w * y - n * h)
        lo_y == floor(x * h, w)
        hi_y == ceil(x * h, w)
        key_y(n) == abs(w * n - x * h)
        best_x == IF key_x(lo_x) < key_x(hi_x) THEN {lo_x}
                  ELSE IF key_x(hi_x) < key_x(lo_x) THEN {hi_x}
                  ELSE {lo_x, hi_x}
        best_y == IF lo_y = 0 THEN {lo_y}
                  ELSE IF key_y(lo_y) * hi_y < key_y(hi_y) * lo_y THEN {lo_y}
                  ELSE IF key_y(hi_y) * lo_y < key_y(lo_y) * hi_y THEN {hi_y}
                  ELSE {lo_y, hi_y}
    IN  IF x >= w /\ y >= h
        THEN {im}
        ELSE IF x * h >= w * y
        THEN {resize(im, <<max(n, 1), y>>) : n \in best_x}
        ELSE {resize(im, <<x, max(n, 1)>>) : n \in best_y}

\* Variant: the requested dimensions are not clamped to 1.
_resize_if_enabled_unclamped(im, opts) ==
    LET target_width == opts.resize_width
        target_height == opts.resize_height
        width == IF target_width # NoInt THEN target_width[1] ELSE im.width
        height == IF target_height # NoInt THEN target_height[1] ELSE im.height
        unchanged == [image_to_save |-> im, same_object |-> TRUE, image |-> im]
    IN  IF ~opts.resize_enabled THEN {unchanged}
        ELSE IF target_width = NoInt /\ target_height = NoInt THEN {unchanged}
        ELSE IF opts.preserve_aspect_ratio
        THEN {[image_to_save |-> resized, same_object |-> FALSE,
               image |-> im] :
                 resized \in thumbnail(copy(im), <<max(1, width),
                                                   max(1, height)>>)}
        ELSE {[image_to_save |-> resize(im, <<width, height>>),
               same_object |-> FALSE, image |-> im]}

\* Variant: thumbnail is called on the image itself, not on a copy.
_resize_if_enabled_in_place(im, opts) ==
    LET target_width == opts.resize_width
        target_height == opts.resize_height
        width == IF target_width # NoInt THEN target_width[1] ELSE im.width
        height == IF target_height # NoInt THEN target_height[1] ELSE im.height
        size == <<max(1, width), max(1, height)>>
        unchanged == [image_to_save |-> im, same_object |-> TRUE, image |-> im]
    IN  IF ~opts.resize_enabled THEN {unchanged}
        ELSE IF target_width = NoInt /\ target_height = NoInt THEN {unchanged}
        ELSE IF opts.preserve_aspect_ratio
        THEN {[image_to_save |-> resized, same_object |-> TRUE,
               image |-> resized] : resized \in thumbnail(im, size)}
        ELSE {[image_to_save |-> resize(im, size), same_object |-> FALSE,
               image |-> im]}

\* converter.py:100-119.  The outcomes of _resize_if_enabled(image, options):
\* the image returned, whether it is the object that was passed, and the
\* passed object after the call.
_resize_if_enabled(im, opts) ==
    LET target_width == opts.resize_width
        target_height == opts.resize_height
        width == IF target_width # NoInt THEN target_width[1] ELSE im.width
        height == IF target_height # NoInt THEN target_height[1] ELSE im.height
        size == <<max(1, width), max(1, height)>>
        unchanged == [image_to_save |-> im, same_object |-> TRUE, image |-> im]
    IN  IF ~opts.resize_enabled THEN {unchanged}
        ELSE IF target_width = NoInt /\ target_height = NoInt THEN {unchanged}
        ELSE IF opts.preserve_aspect_ratio
        THEN {[image_to_save |-> resized, same_object |-> FALSE,
               image |-> im] : resized \in thumbnail(copy(im), size)}
        ELSE {[image_to_save |-> resize(im, size), same_object |-> FALSE,
               image |-> im]}

(***************************************************************************)
(* exif.py.  A tag value is what Pillow hands over: nothing (the tag is    *)
(* missing), a rational (IFDRational or Fraction: it has numerator and     *)
(* denominator), a tuple, an int, a float or a str.  A float is kept as    *)
(* the exact fraction num/den with den > 0.                                *)
(***************************************************************************)
NoTag == [kind |-> "none"]

Rational(n, d) == [kind |-> "rational", num |-> n, den |-> d]

IntValue(n) == [kind |-> "int", num |-> n]

FloatValue(n, d) == [kind |-> "float", num |-> n, den |-> d]

StrValue == [kind |-> "str"]

\* An item of a tuple: a number, or something float() does not accept.
Number(n) == [is_number |-> TRUE, n |-> n]

NotANumber == [is_number |-> FALSE, n |-> 0]

TupleValue(items) == [kind |-> "tuple", items |-> items]

\* The float None.
NoNumber == [num |-> 0, den |-> 0]

\* The fraction n/d, d # 0, with a positive denominator.
fraction(n, d) == IF d < 0 THEN [num |-> -n, den |-> -d]
                  ELSE [num |-> n, den |-> d]

returns(v) == [raised |-> FALSE, value |-> v]

raises == [raised |-> TRUE, value |-> NoNumber]

\* exif.py:12-24.  int has numerator and denominator, so it takes the first
\* branch; float() of an item that is no number raises.
_to_float(value) ==
    IF value.kind = "none" THEN returns(NoNumber)
    ELSE IF value.kind = "rational"
    THEN IF value.den # 0
         THEN returns(fraction(value.num, value.den))
         ELSE returns(NoNumber)
    ELSE IF value.kind = "int" THEN returns(fraction(value.num, 1))
    ELSE IF /\ value.kind = "tuple"
            /\ Len(value.items) = 2
            /\ (value.items[2].is_number => value.items[2].n # 0)
    THEN IF value.items[1].is_number /\ value.items[2].is_number
         THEN returns(fraction(value.items[1].n, value.items[2].n))
         ELSE raises
    ELSE IF value.kind = "float"
    THEN returns(fraction(value.num, value.den))
    ELSE returns(NoNumber)

\* bool(number) for an optional float: None and 0.0 are false.
nonzero(number) == number # NoNumber /\ number.num # 0

\* f"{number:.1f}" and f"{number:.0f}": the decimal numeral with that many
\* digits after the point, rounded half to even.
fixed(number, digits) ==
    LET scale == IF digits = 1 THEN 10 ELSE 1
        n == abs(number.num) * scale
        q == n \div number.den
        r == n % number.den
        rounded == IF 2 * r > number.den THEN q + 1
                   ELSE IF 2 * r < number.den THEN q
                   ELSE IF q % 2 = 0 THEN q ELSE q + 1
        sign == IF number.num < 0 THEN <<"-">> ELSE <<>>
    IN  IF digits = 1
        THEN sign \o str(rounded \div 10) \o <<".">> \o str(rounded % 10)
        ELSE sign \o str(rounded)

\* exif.py:47-83.  The image's metadata block is exif: whether getexif()
\* gives a non-empty mapping, the Model tag of its first directory, whether
\* get_ifd(IFD.Exif) can be read, and the FNumber and FocalLength tags of
\* that directory.  The keys whose value is copied from a tag are
\* represented by camera_model.
extract_exif_data(im) ==
    LET raw_exif == im.exif.present
        ifd_read == raw_exif /\ im.exif.ifd_readable
        model == IF raw_exif THEN im.exif.Model ELSE None
        f_number == IF ifd_read THEN im.exif.FNumber ELSE NoTag
        focal_length == IF ifd_read THEN im.exif.FocalLength ELSE NoTag
        aperture_float == _to_float(f_number)
        focal_length_float == _to_float(focal_length)
        text == [key \in {"aperture", "camera_model", "focal_length"} |->
                   CASE key = "aperture" ->
                          IF nonzero(aperture_float.value)
                          THEN <<"f", "/">> \o fixed(aperture_float.value, 1)
                          ELSE None
                     [] key = "camera_model" -> model
                     [] key = "focal_length" ->
                          IF nonzero(focal_length_float.value)
                          THEN fixed(focal_length_float.value, 0) \o
                               <<"m", "m">>
                          ELSE None]
        kept == {key \in DOMAIN text : text[key] # None /\ text[key] # <<>>}
        cleaned == [key \in kept |-> text[key]] @@
                   [key \in {"image_width", "image_height"} |->
                      IF key = "image_width" THEN im.width ELSE im.height]
    IN  IF aperture_float.raised \/ focal_length_float.raised
        THEN [raised |-> TRUE, data |-> <<>>]
        ELSE [raised |-> FALSE, data |-> cleaned]

(***************************************************************************)
(* gallery_data.build_api_url, gallery_data.py:13-17.                      *)
(***************************************************************************)
\* str.rstrip(chars).
RECURSIVE rstrip_chars(_, _)
rstrip_chars(s, chars) ==
    IF s # <<>> /\ s[Len(s)] \in chars
    THEN rstrip_chars(SubSeq(s, 1, Len(s) - 1), chars)
    ELSE s

build_api_url(base_url, name) ==
    IF ~Truthy(base_url)
    THEN None
    ELSE LET normalized == rstrip_chars(base_url, {"/"})
         IN  normalized \o <<"/">> \o name

\* Values of api_base_url: None, empty, blank, and URLs ending in zero, one
\* and two slashes.
ApiBaseUrls ==
    {None, <<>>, <<" ">>, <<"/">>, <<"u">>, <<"u", "/">>, <<"u", "/", "/">>}

(***************************************************************************)
(* One file's way through the try block, converter.py:39-62, with the data *)
(* the steps hand to each other.  FileSpec follows the first file of a run *)
(* whose output directory exists, from the entry of the try block to the   *)
(* appended record or to the except clause.                                *)
(***************************************************************************)
NoExif ==
    [present |-> FALSE, Model |-> None, ifd_readable |-> FALSE,
     FNumber |-> NoTag, FocalLength |-> NoTag]

\* A camera's block: f/2.8 at 50 mm.
CameraExif ==
    [present |-> TRUE, Model |-> <<"M">>, ifd_readable |-> TRUE,
     FNumber |-> Rational(28, 10), FocalLength |-> Rational(50, 1)]

\* A block whose FNumber is a pair of items that are no numbers.
OddExif ==
    [present |-> TRUE, Model |-> <<"M">>, ifd_readable |-> TRUE,
     FNumber |-> TupleValue(<<NotANumber, NotANumber>>),
     FocalLength |-> NoTag]

FileExifBlocks == {NoExif, CameraExif, OddExif}

FileOptions ==
    [input_files : {<<a_jpg>>}, export_name : {None},
     api_base_url : {None, <<"u", "/">>},
     resize_enabled : BOOLEAN, resize_width : Requested,
     resize_height : Requested, preserve_aspect_ratio : BOOLEAN]

\* converter.py:39-40.
TryName ==
    /\ block = "try"
    /\ output_name' = _build_output_name(options.input_files[1], options, 1)
    /\ block' = "open"
    /\ UNCHANGED <<inputs, pc, index, total, succeeded, failed, records,
                   in_flight, run_exit, expected, callbacks, history,
                   byte_totals, fsys, gui, image, metadata, image_to_save,
                   decoded, call>>

\* converter.py:42.  Image.open decodes the file or raises.
Open ==
    /\ block = "open"
    /\ \/ \E im \in Images, exif \in FileExifBlocks :
             /\ image' = [width |-> im.width, height |-> im.height,
                          exif |-> exif]
             /\ decoded' = image'
             /\ block' = "exif"
       \/ /\ block' = "except"
          /\ UNCHANGED <<image, decoded>>
    /\ UNCHANGED <<core, fsys, gui, metadata, image_to_save, call>>

\* converter.py:43.
ExtractExif ==
    /\ block = "exif"
    /\ LET out == extract_exif_data(image)
       IN  IF out.raised
           THEN block' = "except" /\ UNCHANGED metadata
           ELSE block' = "resize" /\ metadata' = out.data
    /\ UNCHANGED <<core, fsys, gui, image, image_to_save, decoded, call>>

\* converter.py:44.
Resize ==
    /\ block = "resize"
    /\ \E out \in _resize_if_enabled(image, options) :
          /\ image_to_save' = out.image_to_save
          /\ image' = out.image
    /\ block' = "save"
    /\ UNCHANGED <<core, fsys, gui, metadata, decoded, call>>

\* converter.py:45-50.  save writes the file or raises.
SaveImage ==
    /\ block = "save"
    /\ \E ok \in BOOLEAN :
          /\ files' = IF ok THEN files \cup {output_name} ELSE files
          /\ block' = IF ok THEN "stat" ELSE "except"
    /\ UNCHANGED <<core, dir_exists, manifest, gui, with_block_data, call>>

\* converter.py:52-62.  The sizes are read, the record is built and
\* appended.
Record ==
    /\ block = "stat"
    /\ records' = Append(records,
                     [source_file |-> options.input_files[1],
                      output_file |-> output_name,
                      api_url |-> build_api_url(options.api_base_url,
                                                output_name),
                      metadata |-> metadata])
    /\ block' = "recorded"
    /\ UNCHANGED <<inputs, pc, index, total, succeeded, failed, output_name,
                   in_flight, run_exit, expected, callbacks, history,
                   byte_totals, fsys, gui, with_block_data, call>>

FileInit ==
    /\ options \in FileOptions
    /\ on_log = FALSE
    /\ on_progress = FALSE
    /\ RunIdle
    /\ dir_exists = TRUE
    /\ files = {}
    /\ manifest = Absent
    /\ WindowInit
    /\ image = NoImage
    /\ metadata = <<>>
    /\ image_to_save = NoImage
    /\ decoded = NoImage
    /\ call = NoCall
    /\ block = "try"

FileNext ==
    \/ TryName
    \/ Open
    \/ ExtractExif
    \/ Resize
    \/ SaveImage
    \/ Record

FileSpec == FileInit /\ [][FileNext]_vars

(***************************************************************************)
(* The functions of the core called on their own: CallSpec applies one of  *)
(* them, once, to arguments drawn from bounded sets and keeps the call.    *)
(***************************************************************************)
Call__resize_if_enabled ==
    /\ call = NoCall
    /\ \E im \in Images, opts \in ResizeOptions :
          \E out \in _resize_if_enabled(im, opts) :
              call' = [fn |-> "_resize_if_enabled", image |-> im,
                       options |-> opts, out |-> out]
    /\ UNCHANGED <<core, fsys, gui, with_block>>

Call_build_api_url ==
    /\ call = NoCall
    /\ \E base_url \in ApiBaseUrls, name \in {a_webp, p_1_webp} :
          call' = [fn |-> "build_api_url", base_url |-> base_url,
                   output_name |-> name,
                   out |-> build_api_url(base_url, name)]
    /\ UNCHANGED <<core, fsys, gui, with_block>>

\* The directories and the lists of expected names a probe is made with.
b_webp == <<"b", ".", "w", "e", "b", "p">>

ExpectedLists ==
    UNION {[1..n -> {a_webp, p_1_webp, b_webp}] : n \in 0..2}

ProbedDirs ==
    \/ /\ dir_exists = FALSE
       /\ files = {}
       /\ manifest = Absent
    \/ /\ dir_exists = TRUE
       /\ files \in SUBSET OldFiles
       /\ manifest \in {Absent, OldManifest}

\* validation.py:23-31: two exists() probes, nothing is written.
Call_detect_output_conflicts ==
    /\ call = NoCall
    /\ \E expected_output_names \in ExpectedLists :
          LET conflicts == detect_output_conflicts(expected_output_names)
          IN  call' = [fn |-> "detect_output_conflicts",
                       expected_output_names |-> expected_output_names,
                       out |-> conflicts,
                       has_conflicts |-> has_conflicts(conflicts)]
    /\ UNCHANGED <<core, fsys, gui, with_block>>

\* The values the FNumber tag is drawn from: every shape, with positive,
\* zero and negative numbers; and a smaller choice for FocalLength.
ExifNums == {-28, 0, 1, 28}

TupleItems == {Number(-28), Number(0), Number(10), Number(28), NotANumber}

FNumberValues ==
    {NoTag, StrValue, FloatValue(5, 2), FloatValue(0, 1), FloatValue(-5, 2)}
    \cup {Rational(n, d) : n \in ExifNums, d \in {0, 1, 10}}
    \cup {IntValue(n) : n \in {-2, 0, 2}}
    \cup {TupleValue(<<x, y>>) : x \in TupleItems, y \in TupleItems}
    \cup {TupleValue(<<Number(28)>>)}

FocalLengthValues ==
    {NoTag, Rational(50, 1), Rational(505, 10), Rational(-50, 1),
     Rational(0, 1), Rational(50, 0), IntValue(35),
     TupleValue(<<Number(50), NotANumber>>)}

ExifBlocks ==
    [present : BOOLEAN, Model : {None, <<"M">>}, ifd_readable : BOOLEAN,
     FNumber : FNumberValues, FocalLength : FocalLengthValues]

\* exif.py:47-83, on a decoded image of 3x2 pixels.
Call_extract_exif_data ==
    /\ call = NoCall
    /\ \E exif \in ExifBlocks :
          LET im == [width |-> 3, height |-> 2, exif |-> exif]
          IN  call' = [fn |-> "extract_exif_data", image |-> im,
                       out |-> extract_exif_data(im)]
    /\ UNCHANGED <<core, fsys, gui, with_block>>

\* models.py:21-38.  BatchResult and its two properties; the float a
\* property returns is kept as an exact fraction.
MaxBytes == 4

BatchResults ==
    [total : 0..MaxFiles, succeeded : 0..MaxFiles, failed : 0..MaxFiles,
     input_total_bytes : 0..MaxBytes, output_total_bytes : 0..MaxBytes]

bytes_saved(self) == self.input_total_bytes - self.output_total_bytes

\* a / b of two ints: ZeroDivisionError when b is 0.
true_divide(a, b) == IF b = 0 THEN raises ELSE returns(fraction(a, b))

times(number, k) == [num |-> number.num * k, den |-> number.den]

\* Variant: the percentage is computed whatever the input total.
compression_rate_percent_unguarded(self) ==
    LET quotient == true_divide(bytes_saved(self), self.input_total_bytes)
    IN  IF quotient.raised THEN raises
        ELSE returns(times(quotient.value, 100))

compression_rate_percent(self) ==
    IF self.input_total_bytes <= 0
    THEN returns(fraction(0, 1))
    ELSE LET quotient ==
                 true_divide(bytes_saved(self), self.input_total_bytes)
         IN  IF quotient.raised THEN raises
             ELSE returns(times(quotient.value, 100))

Call_BatchResult ==
    /\ call = NoCall
    /\ \E self \in BatchResults :
          call' = [fn |-> "BatchResult", self |-> self,
                   bytes_saved |-> bytes_saved(self),
                   compression_rate_percent |->
                       compression_rate_percent(self)]
    /\ UNCHANGED <<core, fsys, gui, with_block>>

CallInit ==
    /\ options = [input_files |-> <<>>, export_name |-> None]
    /\ on_log = FALSE
    /\ on_progress = FALSE
    /\ RunIdle
    /\ ProbedDirs
    /\ WindowInit
    /\ DetailIdle

CallNext ==
    \/ Call__resize_if_enabled
    \/ Call_build_api_url
    \/ Call_detect_output_conflicts
    \/ Call_extract_exif_data
    \/ Call_BatchResult

CallSpec == CallInit /\ [][CallNext]_vars

(***************************************************************************)
(* Vocabulary of the properties.                                           *)
(***************************************************************************)
NumFiles == Len(options.input_files)

RunOver == pc \in {"returned", "raised"}

\* Positions of run between entering the try block of the current file and
\* leaving its finally clause.
InAttempt ==
    pc \in {"decode", "save", "stat", "record", "count", "except", "finally"}

IsBlank(s) == \A i \in 1..Len(s) : s[i] \in Whitespace

\* s[a..b] is s without its leading and trailing whitespace.
TrimmedAt(s, a, b) ==
    /\ a <= b
    /\ s[a] \notin Whitespace
    /\ s[b] \notin Whitespace
    /\ \A k \in 1..(a - 1) : s[k] \in Whitespace
    /\ \A k \in (b + 1)..Len(s) : s[k] \in Whitespace

\* d is the decimal numeral of n.
IsNumeral(d, n) ==
    /\ Len(d) >= 1
    /\ \A k \in 1..Len(d) : \E v \in 1..10 : DigitChars[v] = d[k]
    /\ (Len(d) > 1 => d[1] # "0")
    /\ int(d) = n

\* st is name up to, not including, its last dot, when that dot is neither
\* the first nor the last character; otherwise st is name.
IsStem(st, name) ==
    IF \E k \in 2..(Len(name) - 1) :
          name[k] = "." /\ \A m \in (k + 1)..Len(name) : name[m] # "."
    THEN \E k \in 2..(Len(name) - 1) :
            /\ name[k] = "."
            /\ \A m \in (k + 1)..Len(name) : name[m] # "."
            /\ st = SubSeq(name, 1, k - 1)
    ELSE st = name

EndsWithWebp(name) ==
    /\ Len(name) >= 5
    /\ SubSeq(name, Len(name) - 4, Len(name)) = <<".", "w", "e", "b", "p">>

\* The records a manifest must list for the files among 1..n that were
\* counted as succeeded, in input order.
RECURSIVE succeeded_entries(_)
succeeded_entries(n) ==
    IF n = 0
    THEN <<>>
    ELSE succeeded_entries(n - 1) \o
         (IF n \in counted_ok
          THEN <<[source_file |-> source_name(n), output_file |-> names[n]]>>
          ELSE <<>>)

HasLine(kind, name) ==
    \E k \in 1..Len(logs) : logs[k] = Message(kind, name)

(***************************************************************************)
(* C1.  Whenever run has returned, succeeded + failed = total =            *)
(* len(input_files) in the BatchResult; and at the end of the i-th loop    *)
(* iteration succeeded + failed = i.                                       *)
(***************************************************************************)
C1_CountsAddUp ==
    /\ pc = "returned" =>
          /\ result.succeeded + result.failed = result.total
          /\ result.total = NumFiles
    /\ pc = "for" => succeeded + failed = index

(***************************************************************************)
(* C2.  In every run whose output directory was created,                   *)
(* write_gallery_data is called exactly once, only after every input file  *)
(* has been attempted, whatever the number of failed files; and no         *)
(* per-file step touches the manifest.                                     *)
(***************************************************************************)
C2_ManifestWrittenOnce ==
    /\ gallery_calls <= 1
    /\ gallery_calls = 1 => attempted = 1..NumFiles
    /\ (RunOver /\ raised_by # "mkdir") => gallery_calls = 1
    /\ (pc # "idle" /\ gallery_calls = 0) => manifest = manifest_at_call

(***************************************************************************)
(* C3.  After run has returned, the manifest holds exactly `succeeded`     *)
(* entries: the input files counted as succeeded, in input order, each     *)
(* with its source name and the output name computed for it in this run.   *)
(***************************************************************************)
C3_ManifestListsSucceeded ==
    pc = "returned" =>
        /\ manifest.state = "complete"
        /\ Len(manifest.entries) = result.succeeded
        /\ manifest.entries = succeeded_entries(NumFiles)

C3_Witness ==
    /\ pc = "returned"
    /\ Len(manifest.entries) = 2
    /\ manifest.entries[1].source_file # manifest.entries[2].source_file
    /\ manifest_at_call = OldManifest

(***************************************************************************)
(* C4.  When a step of the per-file sequence raises for file i, failed is  *)
(* incremented by one, succeeded is unchanged, no record of file i is      *)
(* appended, the "Failed" line of file i is passed to on_log when there is *)
(* one, and the loop goes on to file i+1; so a run with one such file      *)
(* among N returns succeeded = N-1, failed = 1 and a manifest of N-1       *)
(* entries.                                                                *)
(***************************************************************************)
C4_FailureIsolated ==
    /\ \A i \in step_raised :
          /\ i \notin counted_ok
          /\ \A k \in 1..Len(recorded) : recorded[k] # i
          /\ (i < index \/ pc \in {"finally", "for", "write", "created"}
                \/ RunOver) =>
                /\ i \in counted_bad
                /\ on_log => HasLine("Failed", source_name(i))
    /\ failed = Cardinality(counted_bad)
    \* the loop goes on: no exception leaves run from the iteration of i
    /\ (pc = "raised" /\ raised_by \in {"on_log", "on_progress"}) =>
          index \notin step_raised
    /\ (RunOver /\ Cardinality(step_raised) = 1 /\ raised_by # "mkdir"
          /\ attempted = 1..NumFiles /\ raised_by # "write_gallery_data") =>
          /\ pc = "returned"
          /\ result.succeeded = NumFiles - 1
          /\ result.failed = 1
          /\ Len(manifest.entries) = NumFiles - 1

(***************************************************************************)
(* C5.  When on_progress is supplied it is called with (i, total) exactly  *)
(* once for each attempted file i, after the attempt has ended and before  *)
(* file i+1 is started: the calls are (1, total), (2, total), ... in this  *)
(* order, one per attempt that has ended, and all of 1..total once run has *)
(* returned.                                                               *)
(***************************************************************************)
C5_ProgressOncePerFile ==
    on_progress =>
        /\ \A k \in 1..Len(progress) : progress[k] = <<k, total>>
        /\ Len(progress) =
              Cardinality(attempted) - (IF InAttempt THEN 1 ELSE 0)
        /\ attempted = 1..Cardinality(attempted)
        /\ pc = "name" => Len(progress) = index - 1
        /\ pc = "returned" => Len(progress) = NumFiles

C5_Witness ==
    /\ on_progress
    /\ pc = "returned"
    /\ Len(progress) = 2
    /\ counted_bad = {1}

(***************************************************************************)
(* C6.  The output name of the input at 1-based position i is the trimmed  *)
(* export name, "-", the decimal numeral of i and ".webp" when export_name *)
(* is set and not blank, and the stem of the source name and ".webp"       *)
(* otherwise; it always ends with ".webp".                                 *)
(***************************************************************************)
C6_OutputNameRule ==
    \A i \in DOMAIN names :
        LET en == options.export_name
            nm == names[i]
        IN  /\ EndsWithWebp(nm)
            /\ IF en # None /\ ~IsBlank(en)
               THEN \E a, b \in 1..Len(en) :
                       /\ TrimmedAt(en, a, b)
                       /\ Len(nm) >= (b - a + 1) + 1 + 1 + 5
                       /\ SubSeq(nm, 1, b - a + 1) = SubSeq(en, a, b)
                       /\ nm[b - a + 2] = "-"
                       /\ IsNumeral(SubSeq(nm, b - a + 3, Len(nm) - 5), i)
               ELSE IsStem(SubSeq(nm, 1, Len(nm) - 5), source_name(i))

C6_Witness ==
    /\ DOMAIN names = {1, 2}
    /\ options.export_name = <<" ", "p", " ">>
    /\ names[2] = <<"p", "-", "2", ".", "w", "e", "b", "p">>

(***************************************************************************)
(* C7.  get_expected_output_names(options) gives, position by position,    *)
(* the output name run assigns to the same input: the name it computes,    *)
(* writes to and records.                                                  *)
(***************************************************************************)
C7_ExpectedNamesAgree ==
    expected # None =>
        /\ Len(expected) = NumFiles
        /\ \A i \in DOMAIN names : names[i] = expected[i]
        /\ InAttempt /\ index \in DOMAIN names => output_name = expected[index]
        /\ \A k \in 1..Len(records) :
              /\ records[k].source_file = source_name(recorded[k])
              /\ records[k].output_file = expected[recorded[k]]
        /\ \A i \in counted_ok : expected[i] \in files

C7_Witness ==
    /\ expected # None
    /\ pc = "returned"
    /\ counted_ok = {1, 2}
    /\ Truthy(options.export_name) /\ ~IsBlank(options.export_name)

(***************************************************************************)
(* C8.  The output namer never returns a name that collides with a file    *)
(* already present in the output directory or with a name assigned to an   *)
(* earlier input of the same run.                                          *)
(***************************************************************************)
C8_NamesNeverCollide ==
    \A i \in DOMAIN names :
        /\ names[i] \notin files_at_call
        /\ \A j \in DOMAIN names : j < i => names[j] # names[i]

(***************************************************************************)
(* C9.  A resize parameter error (resize enabled with neither width nor    *)
(* height given, a width or height <= 0, or both given while the aspect    *)
(* ratio is preserved) is reported as a validation failure before any file *)
(* is processed: the click on Start shows "Invalid resize values", starts  *)
(* no worker and leaves the output directory as it is; so no worker ever   *)
(* runs with such parameters, and while no worker has been started the     *)
(* output directory is as the window found it.                             *)
(***************************************************************************)
AllZeros(text) == \A k \in 1..Len(text) : text[k] = "0"

ResizeParameterError ==
    /\ resize_enabled_var
    /\ \/ IsBlank(resize_width_entry) /\ IsBlank(resize_height_entry)
       \/ ~IsBlank(resize_width_entry) /\ AllZeros(resize_width_entry)
       \/ ~IsBlank(resize_height_entry) /\ AllZeros(resize_height_entry)
       \/ /\ preserve_aspect_var
          /\ ~IsBlank(resize_width_entry)
          /\ ~IsBlank(resize_height_entry)

ValidResizeOptions(opts) ==
    opts.resize_enabled =>
        /\ opts.resize_width # NoInt \/ opts.resize_height # NoInt
        /\ opts.resize_width # NoInt => opts.resize_width[1] > 0
        /\ opts.resize_height # NoInt => opts.resize_height[1] > 0
        /\ ~(opts.preserve_aspect_ratio /\ opts.resize_width # NoInt
               /\ opts.resize_height # NoInt)

DirectoryUntouched ==
    /\ dir_exists => files = OldFiles /\ manifest = OldManifest
    /\ ~dir_exists => files = {} /\ manifest = Absent

C9_ResizeErrorStopsStart ==
    /\ [](/\ \A k \in 1..Len(threads) : ValidResizeOptions(threads[k])
          /\ starts = 0 => DirectoryUntouched)
    /\ [][(_start_conversion /\ ResizeParameterError) =>
             /\ dialog' = "Invalid resize values"
             /\ UNCHANGED <<threads, starts, ui_queue, fsys>>]_vars

C9_Witness ==
    /\ dialog = "Invalid resize values"
    /\ preserve_aspect_var
    /\ ~IsBlank(resize_width_entry)
    /\ ~IsBlank(resize_height_entry)
    /\ starts = 0
    /\ ~dir_exists

(***************************************************************************)
(* C10.  When creating the output directory fails, run raises and does     *)
(* nothing else: no file is attempted, no callback is called, no manifest  *)
(* is written.                                                             *)
(***************************************************************************)
C10_MkdirFailureStopsRun ==
    (~dir_exists /\ pc \notin {"idle", "mkdir"}) =>
        /\ pc = "raised"
        /\ raised_by = "mkdir"
        /\ attempted = {}
        /\ index = 0
        /\ logs = <<>>
        /\ progress = <<>>
        /\ gallery_calls = 0
        /\ manifest = Absent
        /\ files = {}
        /\ result = NoResult

C10_Witness ==
    /\ pc = "raised"
    /\ raised_by = "mkdir"
    /\ NumFiles = 2
    /\ on_log
    /\ on_progress

(***************************************************************************)
(* C11.  Failing to create the output directory is the only way run ends   *)
(* with an exception: once mkdir has succeeded, run attempts every input   *)
(* file, calls write_gallery_data and returns a BatchResult.               *)
(***************************************************************************)
C11_OnlyMkdirFailsTheRun ==
    /\ pc = "raised" => raised_by = "mkdir"
    /\ (RunOver /\ raised_by # "mkdir") =>
          /\ pc = "returned"
          /\ attempted = 1..NumFiles
          /\ gallery_calls = 1
          /\ result # NoResult

(***************************************************************************)
(* C12.  With resize enabled, preserve_aspect_ratio set and a width or a   *)
(* height given, the image returned fits the box (each given dimension     *)
(* clamped to >= 1, an unset one being the image's own), is not larger     *)
(* than the original in either dimension, is at least 1x1, and has the     *)
(* original's width:height ratio up to the rounding of one side to an      *)
(* integer.                                                                *)
(***************************************************************************)
IsResizeCall == call.fn = "_resize_if_enabled"

SomeDimensionGiven ==
    call.options.resize_width # NoInt \/ call.options.resize_height # NoInt

\* The box of the call: the given dimension, at least 1, or the image's own.
BoxWidth ==
    IF call.options.resize_width = NoInt THEN call.image.width
    ELSE IF call.options.resize_width[1] < 1 THEN 1
    ELSE call.options.resize_width[1]

BoxHeight ==
    IF call.options.resize_height = NoInt THEN call.image.height
    ELSE IF call.options.resize_height[1] < 1 THEN 1
    ELSE call.options.resize_height[1]

\* ow:oh is W:H, or one of ow, oh is less than 1 away from the length that
\* would make it so.
RatioWithinRounding(ow, oh, W, H) ==
    \/ ow * H = oh * W
    \/ (ow * H - oh * W < H /\ oh * W - ow * H < H)
    \/ (ow * H - oh * W < W /\ oh * W - ow * H < W)

C12_ThumbnailFitsBox ==
    (/\ IsResizeCall
     /\ call.options.resize_enabled
     /\ call.options.preserve_aspect_ratio
     /\ SomeDimensionGiven) =>
        LET ow == call.out.image_to_save.width
            oh == call.out.image_to_save.height
        IN  /\ ow <= BoxWidth
            /\ oh <= BoxHeight
            /\ ow <= call.image.width
            /\ oh <= call.image.height
            /\ ow >= 1
            /\ oh >= 1
            /\ RatioWithinRounding(ow, oh, call.image.width,
                                   call.image.height)

\* width = 2 on a 4x2 image gives 2x1.
C12_Witness ==
    /\ IsResizeCall
    /\ call.options.resize_enabled
    /\ call.options.preserve_aspect_ratio
    /\ call.options.resize_width = <<2>>
    /\ call.options.resize_height = NoInt
    /\ call.image = [width |-> 4, height |-> 2]
    /\ call.out.image_to_save = [width |-> 2, height |-> 1]

(***************************************************************************)
(* C13.  With resize enabled, preserve_aspect_ratio unset and a width or a *)
(* height given, the image returned is exactly max(1, w) x max(1, h), w    *)
(* and h being the given dimensions or, when unset, the image's own; with  *)
(* resize disabled, or with neither dimension given, the image passed is   *)
(* returned as it is.                                                      *)
(***************************************************************************)
C13_ExactSizeOrUnchanged ==
    IsResizeCall =>
        /\ (/\ call.options.resize_enabled
            /\ ~call.options.preserve_aspect_ratio
            /\ SomeDimensionGiven) =>
               /\ call.out.image_to_save.width = BoxWidth
               /\ call.out.image_to_save.height = BoxHeight
               /\ call.out.image_to_save.width >= 1
               /\ call.out.image_to_save.height >= 1
        /\ (~call.options.resize_enabled \/ ~SomeDimensionGiven) =>
               /\ call.out.same_object
               /\ call.out.image_to_save = call.image

\* A zero width and a negative height give a 1x1 image.
C13_Witness ==
    /\ IsResizeCall
    /\ call.options.resize_enabled
    /\ ~call.options.preserve_aspect_ratio
    /\ call.options.resize_width = <<0>>
    /\ call.options.resize_height = <<-1>>
    /\ call.image = [width |-> 3, height |-> 2]
    /\ call.out.image_to_save = [width |-> 1, height |-> 1]

(***************************************************************************)
(* C14.  The metadata is extracted before the resize step, and the resize  *)
(* step leaves the decoded image as it was: image_width and image_height   *)
(* of a file's record are the pixel size of the source as decoded, not of  *)
(* the resized image that is saved.                                        *)
(***************************************************************************)
C14_MetadataOfDecodedImage ==
    /\ block \in {"resize", "save", "stat", "recorded"} =>
          /\ metadata["image_width"] = decoded.width
          /\ metadata["image_height"] = decoded.height
    /\ block \in {"save", "stat", "recorded"} => image = decoded
    /\ \A k \in 1..Len(records) :
          /\ records[k].metadata["image_width"] = decoded.width
          /\ records[k].metadata["image_height"] = decoded.height

\* A 4x2 source saved as 2x1 and recorded as 4x2.
C14_Witness ==
    /\ block = "recorded"
    /\ Len(records) = 1
    /\ decoded.width = 4
    /\ decoded.height = 2
    /\ image_to_save.width = 2
    /\ image_to_save.height = 1
    /\ records[1].metadata["image_width"] = 4
    /\ records[1].metadata["image_height"] = 2

(***************************************************************************)
(* C15.  build_api_url(base_url, output_name) is None when base_url is     *)
(* None, empty or blank; otherwise it is base_url without its trailing     *)
(* slashes, one slash, and output_name.                                    *)
(***************************************************************************)
\* t is s without the slashes s ends in.
WithoutTrailingSlashes(t, s) ==
    /\ Len(t) <= Len(s)
    /\ t = SubSeq(s, 1, Len(t))
    /\ \A k \in (Len(t) + 1)..Len(s) : s[k] = "/"
    /\ (t # <<>> => t[Len(t)] # "/")

C15_ApiUrl ==
    call.fn = "build_api_url" =>
        IF call.base_url = None \/ IsBlank(call.base_url)
        THEN call.out = None
        ELSE \E t \in {SubSeq(call.base_url, 1, k) :
                          k \in 0..Len(call.base_url)} :
                /\ WithoutTrailingSlashes(t, call.base_url)
                /\ call.out = t \o <<"/">> \o call.output_name

(***************************************************************************)
(* C16.  detect_output_conflicts only probes: gallery_json_exists tells    *)
(* whether gallery-data.json is in the output directory, duplicate_files   *)
(* lists the expected names that are in it, in the order given, and        *)
(* has_conflicts is true exactly when one of the two is; the directory is  *)
(* left as it was.                                                         *)
(***************************************************************************)
IsProbe == call.fn = "detect_output_conflicts"

\* The positions of the expected names that exist in the directory.
Existing == {i \in DOMAIN call.expected_output_names :
                call.expected_output_names[i] \in files}

C16_ConflictProbe ==
    /\ [](IsProbe =>
            /\ call.out.gallery_json_exists = (manifest # Absent)
            /\ Len(call.out.duplicate_files) = Cardinality(Existing)
            /\ \A i \in Existing :
                  call.out.duplicate_files[Cardinality({j \in Existing :
                                                           j <= i})]
                     = call.expected_output_names[i]
            /\ call.has_conflicts =
                  (manifest # Absent \/ Existing # {}))
    /\ [][Call_detect_output_conflicts => UNCHANGED fsys]_vars

\* The directory holds gallery-data.json and a.webp, and a.webp is expected.
C16_Witness ==
    /\ IsProbe
    /\ manifest = OldManifest
    /\ files = {a_webp}
    /\ call.expected_output_names = <<b_webp, a_webp>>
    /\ call.out.gallery_json_exists
    /\ call.out.duplicate_files = <<a_webp>>
    /\ call.has_conflicts

(***************************************************************************)
(* C17.  extract_exif_data gives the key aperture exactly when the         *)
(* F-number converts to a value > 0, as "f/" and the value with one        *)
(* decimal, and the key focal_length exactly when the focal length         *)
(* converts to a value > 0, as the value rounded to an integer and "mm";   *)
(* a zero, negative or unconvertible value gives no key.                   *)
(***************************************************************************)
IsExtraction == call.fn = "extract_exif_data"

\* The tags the extraction can see: those of the Exif directory only when
\* the block is there and the directory can be read.
SeenTag(name) ==
    IF call.image.exif.present /\ call.image.exif.ifd_readable
    THEN call.image.exif[name]
    ELSE NoTag

\* The tag value stands for a number greater than 0.
IsPositive(v) ==
    \/ v.kind = "rational" /\ v.den > 0 /\ v.num > 0
    \/ v.kind = "int" /\ v.num > 0
    \/ v.kind = "float" /\ v.num > 0
    \/ /\ v.kind = "tuple"
       /\ Len(v.items) = 2
       /\ v.items[1].is_number
       /\ v.items[2].is_number
       /\ v.items[1].n * v.items[2].n > 0

C17_ApertureAndFocalLength ==
    (IsExtraction /\ ~call.out.raised) =>
        /\ "aperture" \in DOMAIN call.out.data <=>
              IsPositive(SeenTag("FNumber"))
        /\ "focal_length" \in DOMAIN call.out.data <=>
              IsPositive(SeenTag("FocalLength"))
        /\ SeenTag("FNumber") = Rational(28, 10) =>
              call.out.data["aperture"] = <<"f", "/", "2", ".", "8">>
        /\ SeenTag("FocalLength") = Rational(50, 1) =>
              call.out.data["focal_length"] = <<"5", "0", "m", "m">>

(***************************************************************************)
(* C18.  extract_exif_data never raises: whatever the metadata block       *)
(* holds, it returns a mapping; and when the Exif directory cannot be      *)
(* read, the mapping only lacks the fields of that directory.              *)
(***************************************************************************)
C18_ExtractionNeverRaises ==
    IsExtraction =>
        /\ ~call.out.raised
        /\ call.out.data["image_width"] = call.image.width
        /\ call.out.data["image_height"] = call.image.height
        /\ (call.image.exif.present /\ call.image.exif.Model # None) =>
              call.out.data["camera_model"] = call.image.exif.Model

(***************************************************************************)
(* C19.  gallery-data.json is never left partial: it is absent, or the     *)
(* complete manifest of an earlier run, or the complete list of the        *)
(* records of this run; it is written once, after the loop, and a failure  *)
(* while it is written does not leave a truncated file.                    *)
(***************************************************************************)
C19_ManifestNeverPartial ==
    /\ gallery_calls <= 1
    /\ manifest.state \in {"absent", "complete"}
    /\ \/ manifest = Absent
       \/ manifest = OldManifest
       \/ /\ gallery_calls = 1
          /\ manifest = write_gallery_data(records)

(***************************************************************************)
(* C20.  For every BatchResult, bytes_saved is input_total_bytes minus     *)
(* output_total_bytes; compression_rate_percent never fails on a division, *)
(* is 0 when input_total_bytes is 0, and otherwise is                      *)
(* bytes_saved / input_total_bytes * 100.                                  *)
(***************************************************************************)
IsBatchResult == call.fn = "BatchResult"

C20_BytesSavedAndRate ==
    IsBatchResult =>
        LET rate == call.compression_rate_percent
        IN  /\ call.bytes_saved + call.self.output_total_bytes
                  = call.self.input_total_bytes
            /\ ~rate.raised
            /\ rate.value.den > 0
            /\ call.self.input_total_bytes = 0 => rate.value.num = 0
            /\ call.self.input_total_bytes # 0 =>
                  rate.value.num * call.self.input_total_bytes
                     = 100 * call.bytes_saved * rate.value.den

\* Every file failed: no input byte was counted, and the rate is 0.
C20_Witness ==
    /\ IsBatchResult
    /\ call.self.total = 2
    /\ call.self.failed = 2
    /\ call.self.succeeded = 0
    /\ call.self.input_total_bytes = 0
    /\ call.self.output_total_bytes = 0
    /\ ~call.compression_rate_percent.raised
    /\ call.compression_rate_percent.value.num = 0

(***************************************************************************)
(* C21.  Whatever on_log and on_progress do, and also when one of them     *)
(* raises while a file is processed, every attempted file whose attempt    *)
(* has ended is counted in exactly one of succeeded and failed, and has a  *)
(* record (and so an entry of the manifest written from the records)       *)
(* exactly when it was counted as succeeded.                               *)
(***************************************************************************)
\* The attempt of file i is over: the loop has left its finally clause, or
\* an exception has left run.
AttemptOver(i) ==
    /\ i \in attempted
    /\ (i < index \/ pc \in {"for", "write", "created", "returned", "raised"})

HasRecord(i) == \E k \in 1..Len(recorded) : recorded[k] = i

C21_CountedExactlyOnce ==
    /\ \A i \in 1..NumFiles :
          AttemptOver(i) =>
              /\ (i \in counted_ok) # (i \in counted_bad)
              /\ HasRecord(i) <=> i \in counted_ok
    /\ succeeded = Cardinality(counted_ok)
    /\ failed = Cardinality(counted_bad)
    /\ pc \in {"created", "returned"} =>
          Len(manifest.entries) = Cardinality(counted_ok)

(***************************************************************************)
(* C22.  After run has returned, every image file the run wrote into the   *)
(* output directory has a manifest record and is counted in the byte       *)
(* totals: a file counted as failed left no output image written by this   *)
(* run, input_total_bytes is the sum of the source sizes of exactly the    *)
(* succeeded files and output_total_bytes the sum of their output sizes.   *)
(***************************************************************************)
RECURSIVE source_bytes_of(_)
source_bytes_of(S) ==
    IF S = {}
    THEN 0
    ELSE LET i == CHOOSE x \in S : TRUE
         IN  source_st_size(source_name(i)) + source_bytes_of(S \ {i})

RECURSIVE output_bytes_of(_)
output_bytes_of(S) ==
    IF S = {}
    THEN 0
    ELSE LET i == CHOOSE x \in S : TRUE
         IN  output_st_size(source_name(i)) + output_bytes_of(S \ {i})

HasEntry(i) ==
    \E k \in 1..Len(manifest.entries) :
        manifest.entries[k].output_file = names[i]

C22_WrittenFilesAccounted ==
    pc = "returned" =>
        /\ \A i \in saved : HasRecord(i) /\ HasEntry(i)
        /\ \A i \in counted_bad : i \notin saved
        /\ result.input_total_bytes = source_bytes_of(counted_ok)
        /\ result.output_total_bytes = output_bytes_of(counted_ok)

(***************************************************************************)
(* C23.  In the GUI at most one conversion worker runs at any time: from   *)
(* the moment _start_conversion starts a worker thread until that worker's *)
(* finish callback has run, the start button stays disabled, whatever the  *)
(* user does meanwhile (picking images, picking an output folder), so no   *)
(* second run is started while the first still writes to the directory.    *)
(***************************************************************************)
WorkerUnfinished == threads # <<>> \/ ui_queue # <<>>

C23_OneWorkerAtATime ==
    /\ Len(threads) <= 1
    /\ WorkerUnfinished => start_button = "disabled"

(***************************************************************************)
(* C24.  Every conversion started from the GUI eventually finishes for the *)
(* user: once _start_conversion has disabled the start button and started  *)
(* the worker, the finish callback is eventually scheduled on the UI       *)
(* thread, for every outcome of BatchConverter.run, a run-level failure    *)
(* (directory creation, manifest write) included.                          *)
(***************************************************************************)
WorkerRunning == threads # <<>>

FinishScheduled == ui_queue # <<>> /\ Head(ui_queue) = "finish"

C24_StartedRunFinishes == WorkerRunning ~> FinishScheduled

=============================================================================
